---- MODULE Spec2Model ----
(***************************************************************************)
(* A model of the tree core of SVGTree.ts: the Newick Tokenizer, the       *)
(* generic Tree class (children / parent links, structural mutation,       *)
(* parseInto, newick, find), the entry point SVGTree.parse and the two     *)
(* layout passes of SVGTree.render.                                        *)
(*                                                                         *)
(* The heap is three functions over the allocated node identities:         *)
(*   parent[n]    the field Tree.parent (a node, null or undefined)        *)
(*   children[n]  the field Tree.children (a sequence of nodes)            *)
(*   data[n]      the field Tree.data (a sequence of one-character         *)
(*                strings, or NullData)                                    *)
(*   collapsed    the set of the nodes whose field collapsed is true       *)
(*   leafPosition[n], leftMargin[n], rightMargin[n]                        *)
(*                the fields _leafPosition, _leftMargin and _rightMargin,  *)
(*                each a function on the nodes that carry the field: a     *)
(*                number, or the sequence of the numbers of a margin array *)
(*   realignShift[n]                                                       *)
(*                the value that the local variable shift of _realign had  *)
(*                at line 824 of the last call on n that computed one      *)
(* The specifications share the variables:                                 *)
(*   Spec         structural operations on a fixed set of nodes, with any  *)
(*                arguments                                                *)
(*   SpecCareful  the same operations, called within their preconditions   *)
(*   SpecRT       newick() of a bounded tree followed by SVGTree.parse     *)
(*   SpecText     SVGTree.parse of an arbitrary bounded text               *)
(*   SpecFind     find() on a bounded tree                                 *)
(*   SpecLayout   the steps of a full render() on a bounded tree           *)
(*   SpecRealign  the same steps on larger trees without collapsed nodes   *)
(*   SpecContent  insertContent() of nodes of a bounded tree               *)
(***************************************************************************)
EXTENDS Integers, Sequences, FiniteSets, TLC

VARIABLES parent, children, data, text, root, last,
          collapsed, leafPosition, leftMargin, rightMargin, realignShift

\* the fields of a node that the layout reads and writes
layoutVars ==
    <<collapsed, leafPosition, leftMargin, rightMargin, realignShift>>

vars == <<parent, children, data, text, root, last, layoutVars>>

(***************************************************************************)
(* Bounds.                                                                 *)
(***************************************************************************)
NumNodes == 3        \* nodes of the structural specification
MaxTreeNodes == 3    \* nodes of a tree that is serialized
MaxLabelChars == 2   \* characters of all labels of such a tree together
MaxTextLen == 6      \* characters of a typed text

(***************************************************************************)
(* Values of the parent field that are not nodes.  Nodes are 1, 2, ...     *)
(***************************************************************************)
Null == 0
Undef == -1

IsNode(v) == v \in Nat /\ v >= 1

\* JavaScript truthiness of a parent reference: null and undefined are falsy
Truthy(v) == IsNode(v)

(***************************************************************************)
(* Array helpers with the semantics of Array.prototype.indexOf / splice.   *)
(***************************************************************************)
\* 0-based index of the first occurrence (identity comparison), -1 if absent
indexOf(seq, elem) ==
    IF \E i \in 1..Len(seq) : seq[i] = elem
    THEN (CHOOSE i \in 1..Len(seq) :
              seq[i] = elem /\ \A j \in 1..(i-1) : seq[j] # elem) - 1
    ELSE -1

\* splice(idx, 1) with 0 <= idx < length
spliceOut(seq, idx) ==
    [i \in 1..(Len(seq) - 1) |-> IF i <= idx THEN seq[i] ELSE seq[i + 1]]

\* the start index splice() actually uses: negative counts from the end,
\* and the result is clamped to 0..length
spliceStart(seq, position) ==
    IF position < 0
    THEN (IF Len(seq) + position < 0 THEN 0 ELSE Len(seq) + position)
    ELSE (IF position > Len(seq) THEN Len(seq) ELSE position)

\* splice(position, 0, elem)
spliceIn(seq, position, elem) ==
    LET s == spliceStart(seq, position)
    IN  [i \in 1..(Len(seq) + 1) |->
            IF i <= s THEN seq[i] ELSE IF i = s + 1 THEN elem ELSE seq[i - 1]]

(***************************************************************************)
(* Tree.removeChild, as a function on the children field of every node.    *)
(***************************************************************************)
removeChildOf(ch, X, elem) ==
    LET idx == indexOf(ch[X], elem)
    IN  IF idx >= 0 THEN [ch EXCEPT ![X] = spliceOut(@, idx)] ELSE ch

\* Tree.position
position(par, ch, n) ==
    IF Truthy(par[n]) THEN indexOf(ch[par[n]], n) ELSE -1

(***************************************************************************)
(* The record of the last call: the operation, its receiver x, its node    *)
(* argument c, its index argument p and the outcome ("ok" for a normal     *)
(* return, "TypeError" for a thrown TypeError).                            *)
(***************************************************************************)
Call(op, x, c, p, out) ==
    [op |-> op, x |-> x, c |-> c, p |-> p, out |-> out]

NoCall == Call("none", Null, Null, 0, "ok")

(***************************************************************************)
(* Structural operations.  `child.parent !== null` lets undefined through, *)
(* and the call of removeChild on undefined then throws a TypeError before *)
(* anything is modified.                                                   *)
(***************************************************************************)
removeChild(X, c) ==
    /\ children' = removeChildOf(children, X, c)
    /\ last' = Call("removeChild", X, c, 0, "ok")
    /\ UNCHANGED <<parent, data, text, root, layoutVars>>

\* append() that forgets to take the child out of its previous parent
appendKeepsOldLink(X, c) ==
    IF parent[c] # Null /\ ~IsNode(parent[c])
    THEN /\ last' = Call("append", X, c, 0, "TypeError")
         /\ UNCHANGED <<parent, children, data, text, root, layoutVars>>
    ELSE /\ children' = [children EXCEPT ![X] = Append(@, c)]
         /\ parent' = [parent EXCEPT ![c] = X]
         /\ last' = Call("append", X, c, 0, "ok")
         /\ UNCHANGED <<data, text, root, layoutVars>>

append(X, c) ==
    IF parent[c] # Null /\ ~IsNode(parent[c])
    THEN /\ last' = Call("append", X, c, 0, "TypeError")
         /\ UNCHANGED <<parent, children, data, text, root, layoutVars>>
    ELSE LET ch1 == IF parent[c] # Null
                    THEN removeChildOf(children, parent[c], c)
                    ELSE children
         IN  /\ children' = [ch1 EXCEPT ![X] = Append(@, c)]
             /\ parent' = [parent EXCEPT ![c] = X]
             /\ last' = Call("append", X, c, 0, "ok")
             /\ UNCHANGED <<data, text, root, layoutVars>>

prepend(X, c) ==
    IF parent[c] # Null /\ ~IsNode(parent[c])
    THEN /\ last' = Call("prepend", X, c, 0, "TypeError")
         /\ UNCHANGED <<parent, children, data, text, root, layoutVars>>
    ELSE LET ch1 == IF parent[c] # Null
                    THEN removeChildOf(children, parent[c], c)
                    ELSE children
         IN  /\ children' = [ch1 EXCEPT ![X] = spliceIn(@, 0, c)]
             /\ parent' = [parent EXCEPT ![c] = X]
             /\ last' = Call("prepend", X, c, 0, "ok")
             /\ UNCHANGED <<data, text, root, layoutVars>>

\* insert() without the self-move correction
insertIndexNoCorrection(par, ch, X, c, p) == p

\* the index insert() splices at: decremented when child.parent == this and
\* child.position() < position
insertIndex(par, ch, X, c, p) ==
    IF par[c] = X /\ position(par, ch, c) < p THEN p - 1 ELSE p

insert(X, c, p) ==
    IF parent[c] # Null /\ ~IsNode(parent[c])
    THEN /\ last' = Call("insert", X, c, p, "TypeError")
         /\ UNCHANGED <<parent, children, data, text, root, layoutVars>>
    ELSE LET pos == insertIndex(parent, children, X, c, p)
             ch1 == IF parent[c] # Null
                    THEN removeChildOf(children, parent[c], c)
                    ELSE children
         IN  /\ children' = [ch1 EXCEPT ![X] = spliceIn(@, pos, c)]
             /\ parent' = [parent EXCEPT ![c] = X]
             /\ last' = Call("insert", X, c, p, "ok")
             /\ UNCHANGED <<data, text, root, layoutVars>>

detach(n) ==
    /\ children' = IF Truthy(parent[n])
                   THEN removeChildOf(children, parent[n], n)
                   ELSE children
    /\ parent' = [parent EXCEPT ![n] = Undef]
    /\ last' = Call("detach", n, n, 0, "ok")
    /\ UNCHANGED <<data, text, root, layoutVars>>

(***************************************************************************)
(* SVGTreeNode.root: `while (root.parent !== null) root = root.parent`.    *)
(* An undefined parent makes root undefined and the next test throws; on a *)
(* parent cycle the loop never ends (more hops than there are nodes).  It  *)
(* is a query without side effects, so it is an operator on the heap.      *)
(***************************************************************************)
RECURSIVE rootWalk(_, _, _)
rootWalk(par, r, fuel) ==
    IF par[r] = Null THEN [out |-> "ok", ret |-> r]
    ELSE IF ~IsNode(par[r]) THEN [out |-> "TypeError", ret |-> Null]
    ELSE IF fuel = 0 THEN [out |-> "diverges", ret |-> Null]
    ELSE rootWalk(par, par[r], fuel - 1)

rootOf(par, n) == rootWalk(par, n, Cardinality(DOMAIN par))

(***************************************************************************)
(* The structural specification: NumNodes freshly constructed nodes.       *)
(***************************************************************************)
Nodes == 1..NumNodes

Init ==
    /\ parent = [n \in Nodes |-> Null]
    /\ children = [n \in Nodes |-> <<>>]
    /\ data = [n \in Nodes |-> <<>>]
    /\ text = <<>>
    /\ root = Null
    /\ last = NoCall
    /\ collapsed = {}
    /\ leafPosition = <<>>
    /\ leftMargin = <<>>
    /\ rightMargin = <<>>
    /\ realignShift = <<>>

Next ==
    \/ \E X \in Nodes, c \in Nodes : removeChild(X, c)
    \/ \E X \in Nodes, c \in Nodes : append(X, c)
    \/ \E X \in Nodes, c \in Nodes : prepend(X, c)
    \/ \E X \in Nodes, c \in Nodes :
          \E p \in 0..Len(children[X]) : insert(X, c, p)
    \/ \E n \in Nodes : detach(n)

Spec == Init /\ [][Next]_vars

(***************************************************************************)
(* Callers that respect the preconditions of the structural operations:    *)
(* they never attach a node to itself or to one of its descendants, and    *)
(* they detach only a node that has a parent.                              *)
(***************************************************************************)
RECURSIVE reachesUp(_, _, _, _)
\* a is reached from n by at least one and at most fuel parent hops
reachesUp(par, n, a, fuel) ==
    /\ fuel > 0
    /\ IsNode(par[n])
    /\ (par[n] = a \/ reachesUp(par, par[n], a, fuel - 1))

IsAncestor(par, a, n) == reachesUp(par, n, a, Cardinality(DOMAIN par))

MayAttach(X, c) == X # c /\ ~IsAncestor(parent, c, X)

NextCareful ==
    \/ \E X \in Nodes, c \in Nodes : removeChild(X, c)
    \/ \E X \in Nodes, c \in Nodes : MayAttach(X, c) /\ append(X, c)
    \/ \E X \in Nodes, c \in Nodes : MayAttach(X, c) /\ prepend(X, c)
    \/ \E X \in Nodes, c \in Nodes :
          \E p \in 0..Len(children[X]) : MayAttach(X, c) /\ insert(X, c, p)
    \/ \E n \in Nodes : Truthy(parent[n]) /\ detach(n)

SpecCareful == Init /\ [][NextCareful]_vars

(***************************************************************************)
(* Tokenizer.  A text is a sequence of one-character strings.  A token is  *)
(* a terminal marker (a number), a label fragment (a string) or, after a   *)
(* trailing backslash, the value undefined.                                *)
(***************************************************************************)
SEMICOLON == 0
COMMA == 1
PAR_LEFT == 2
PAR_RIGHT == 3

\* the characters of '(),;\\'
Reserved == {"(", ")", ",", ";", "\\"}

Mark(m) == [k |-> "mark", v |-> m, s |-> <<>>]
Str(s) == [k |-> "str", v |-> -1, s |-> s]
UndefTok == [k |-> "undef", v |-> -1, s |-> <<>>]

\* text[pos + 1] beyond the end of the text, and what a string += undefined
\* appends
UndefSym == "undefined"
UndefChars == <<"u", "n", "d", "e", "f", "i", "n", "e", "d">>

\* the value thrown by unescape
InvalidEscape == "Invalid location of backslash"

\* escape() without the backslash itself among the escaped characters
RECURSIVE escapeKeepsBackslash(_)
escapeKeepsBackslash(txt) ==
    IF txt = <<>> THEN <<>>
    ELSE (IF Head(txt) \in Reserved \ {"\\"}
          THEN <<"\\", Head(txt)>>
          ELSE <<Head(txt)>>) \o escapeKeepsBackslash(Tail(txt))

\* Tokenizer.escape, for string data
RECURSIVE escape(_)
escape(txt) ==
    IF txt = <<>> THEN <<>>
    ELSE (IF Head(txt) \in Reserved
          THEN <<"\\", Head(txt)>>
          ELSE <<Head(txt)>>) \o escape(Tail(txt))

\* Tokenizer.unescape: the symbol, or InvalidEscape when it throws
unescape(symbol, strict) ==
    IF strict /\ (symbol = UndefSym \/ symbol \notin Reserved)
    THEN InvalidEscape
    ELSE symbol

\* the loop of Tokenizer.tokenize from the 1-based index pos on; unescape is
\* called with one argument, so strict is undefined (falsy)
RECURSIVE tokenizeFrom(_, _, _)
tokenizeFrom(txt, pos, tokens) ==
    IF pos > Len(txt) THEN [out |-> "ok", tokens |-> tokens]
    ELSE IF txt[pos] = ";"
         THEN tokenizeFrom(txt, pos + 1, Append(tokens, Mark(SEMICOLON)))
    ELSE IF txt[pos] = ","
         THEN tokenizeFrom(txt, pos + 1, Append(tokens, Mark(COMMA)))
    ELSE IF txt[pos] = "("
         THEN tokenizeFrom(txt, pos + 1, Append(tokens, Mark(PAR_LEFT)))
    ELSE IF txt[pos] = ")"
         THEN tokenizeFrom(txt, pos + 1, Append(tokens, Mark(PAR_RIGHT)))
    ELSE
      LET esc == txt[pos] = "\\"
          nxt == IF pos + 1 <= Len(txt) THEN txt[pos + 1] ELSE UndefSym
          symbol == IF esc THEN unescape(nxt, FALSE) ELSE txt[pos]
          n == Len(tokens)
          merged ==
              IF n > 0 /\ tokens[n].k = "str"
              THEN [tokens EXCEPT ![n] =
                       Str(@.s \o (IF symbol = UndefSym THEN UndefChars
                                   ELSE <<symbol>>))]
              ELSE Append(tokens, IF symbol = UndefSym THEN UndefTok
                                  ELSE Str(<<symbol>>))
      IN  IF symbol = InvalidEscape
          THEN [out |-> "throw", tokens |-> <<>>]
          ELSE tokenizeFrom(txt, IF esc THEN pos + 2 ELSE pos + 1, merged)

tokenize(txt) == tokenizeFrom(txt, 1, <<>>)

(***************************************************************************)
(* The comparisons of parseInto are loose (==): a label fragment equals a  *)
(* marker when the string converts to the marker's number.  toNumber       *)
(* covers the strings of decimal digits; every other string is NaN (-1).   *)
(***************************************************************************)
Digits == <<"0", "1", "2", "3", "4", "5", "6", "7", "8", "9">>

digitValue(ch) == (CHOOSE i \in 1..10 : Digits[i] = ch) - 1

RECURSIVE toNumber(_)
toNumber(s) ==
    IF s = <<>> THEN 0
    ELSE LET init == SubSeq(s, 1, Len(s) - 1)
             d == s[Len(s)]
         IN  IF (\E i \in 1..10 : Digits[i] = d) /\ toNumber(init) >= 0
             THEN 10 * toNumber(init) + digitValue(d)
             ELSE -1

\* tokens[idx] == marker, idx 0-based; an index outside the array reads
\* undefined, which equals no marker
looseEq(tokens, idx, m) ==
    /\ idx >= 0
    /\ idx < Len(tokens)
    /\ \/ tokens[idx + 1].k = "mark" /\ tokens[idx + 1].v = m
       \/ tokens[idx + 1].k = "str" /\ toNumber(tokens[idx + 1].s) = m

isString(tokens, idx) ==
    idx >= 0 /\ idx < Len(tokens) /\ tokens[idx + 1].k = "str"

(***************************************************************************)
(* The heap as one value, for the operators that allocate nodes.           *)
(***************************************************************************)
Heap(par, ch, dat) == [parent |-> par, children |-> ch, data |-> dat]

\* the data of `new SVGTreeNode(null, owner)`
NullData == <<"null">>

\* new SVGTreeNode(d, owner): the new node is Len(h.parent) + 1
alloc(h, d) ==
    Heap(Append(h.parent, Null), Append(h.children, <<>>), Append(h.data, d))

\* parent.append(node) where parseInto has parent.prepend(node)
linkParsedLast(h, par, node) ==
    [h EXCEPT !.children[par] = Append(@, node), !.parent[node] = par]

\* parent.prepend(node) for the freshly made node of parseInto
linkParsed(h, par, node) ==
    [h EXCEPT !.children[par] = spliceIn(@, 0, node), !.parent[node] = par]

(***************************************************************************)
(* Tree.parseInto after tokenizing: the backward scan.  this is the        *)
(* receiver, pos the 0-based index, par and node the two cursors.  The     *)
(* result is the heap and the outcome; `parent.parent` with parent null    *)
(* throws a TypeError.                                                     *)
(***************************************************************************)
RECURSIVE parseLoop(_, _, _, _, _, _)
parseLoop(h, tokens, this, pos, par, node) ==
    IF pos < 0 THEN [out |-> "ok", heap |-> h]
    ELSE
      LET skip == pos < Len(tokens) - 1 /\ looseEq(tokens, pos + 1, PAR_LEFT)
          str == isString(tokens, pos)
          dat == IF str THEN tokens[pos + 1].s ELSE <<>>
          pos1 == IF ~skip /\ str THEN pos - 1 ELSE pos
          fresh == Len(h.parent) + 1
          h1 == IF skip THEN h
                ELSE IF par = Null THEN [h EXCEPT !.data[this] = dat]
                ELSE linkParsed(alloc(h, dat), par, fresh)
          node1 == IF skip THEN node
                   ELSE IF par = Null THEN this ELSE fresh
      IN  IF looseEq(tokens, pos1, PAR_LEFT)
          THEN IF pos1 > 0
               THEN IF ~IsNode(par)
                    THEN [out |-> "TypeError", heap |-> h1]
                    ELSE parseLoop(h1, tokens, this, pos1 - 1,
                                   h1.parent[par], node1)
               ELSE parseLoop(h1, tokens, this, pos1 - 1, par, node1)
          ELSE IF looseEq(tokens, pos1, PAR_RIGHT)
               THEN parseLoop(h1, tokens, this, pos1 - 1, node1, node1)
               ELSE parseLoop(h1, tokens, this, pos1 - 1, par, node1)

parseInto(h, this, txt) ==
    LET t == tokenize(txt)
    IN  IF t.out = "throw" THEN [out |-> "throw", heap |-> h]
        ELSE parseLoop(h, t.tokens, this, Len(t.tokens) - 1, Null, Null)

(***************************************************************************)
(* Tree.newick / _recurrentNewick on a heap whose data are strings.        *)
(***************************************************************************)
RECURSIVE recurrentNewick(_, _, _)
RECURSIVE joinNewick(_, _, _, _)
joinNewick(ch, dat, kids, i) ==
    IF i > Len(kids) THEN <<>>
    ELSE recurrentNewick(ch, dat, kids[i])
         \o (IF i < Len(kids) THEN <<",">> ELSE <<>>)
         \o joinNewick(ch, dat, kids, i + 1)

recurrentNewick(ch, dat, n) ==
    (IF Len(ch[n]) > 0
     THEN <<"(">> \o joinNewick(ch, dat, ch[n], 1) \o <<")">>
     ELSE <<>>) \o escape(dat[n])

newickOf(ch, dat, n) == recurrentNewick(ch, dat, n) \o <<";">>

\* tree.newick() on the tree rooted at node 1, kept as the text
newick ==
    /\ last.op = "none"
    /\ text' = newickOf(children, data, 1)
    /\ last' = Call("newick", 1, Null, 0, "ok")
    /\ UNCHANGED <<parent, children, data, root, layoutVars>>

(***************************************************************************)
(* SVGTree.parse(text): parse into a new receiver; when that throws, the   *)
(* result is a new node whose data is the text.  The nodes made before the *)
(* throw stay allocated, unreferenced.                                     *)
(***************************************************************************)
parse ==
    /\ root = Null
    /\ \E r \in {parseInto(alloc(Heap(parent, children, data), NullData),
                            Len(parent) + 1, text)} :
         \E h2 \in {IF r.out = "ok" THEN r.heap ELSE alloc(r.heap, text)} :
           /\ parent' = h2.parent
           /\ children' = h2.children
           /\ data' = h2.data
           /\ root' = IF r.out = "ok" THEN Len(parent) + 1
                                      ELSE Len(h2.parent)
           /\ last' = Call("parse", root', Null, 0, r.out)
    /\ UNCHANGED <<text, layoutVars>>

(***************************************************************************)
(* SpecRT: a tree of at most MaxTreeNodes nodes whose labels hold at most  *)
(* MaxLabelChars characters together is serialized and the text parsed.    *)
(* Node 1 is the root, pv[j] < j the parent of node j, and the children of *)
(* a node are in increasing order; every ordered tree has this numbering.  *)
(***************************************************************************)
LabelChars == {"A", "2", "(", ")", ",", ";", "\\"}

RECURSIVE ascending(_)
ascending(S) ==
    IF S = {} THEN <<>>
    ELSE LET m == CHOOSE x \in S : \A y \in S : x <= y
         IN  <<m>> \o ascending(S \ {m})

RECURSIVE charsOf(_, _, _)
\* the characters of s owned by node n, in order
charsOf(s, owner, n) ==
    IF s = <<>> THEN <<>>
    ELSE (IF Head(owner) = n THEN <<Head(s)>> ELSE <<>>)
         \o charsOf(Tail(s), Tail(owner), n)

InitRT ==
    \E k \in 1..MaxTreeNodes :
      \E pv \in [2..k -> 1..k] :
        \E len \in 0..MaxLabelChars :
          \E s \in [1..len -> LabelChars] :
            \E owner \in [1..len -> 1..k] :
              /\ \A j \in 2..k : pv[j] < j
              /\ parent = [n \in 1..k |-> IF n = 1 THEN Null ELSE pv[n]]
              /\ children =
                    [n \in 1..k |-> ascending({j \in 2..k : pv[j] = n})]
              /\ data = [n \in 1..k |-> charsOf(s, owner, n)]
              /\ text = <<>>
              /\ root = Null
              /\ last = NoCall
              /\ collapsed = {}
              /\ leafPosition = <<>>
              /\ leftMargin = <<>>
              /\ rightMargin = <<>>
              /\ realignShift = <<>>

NextRT ==
    \/ newick
    \/ last.op = "newick" /\ parse

SpecRT == InitRT /\ [][NextRT]_vars

(***************************************************************************)
(* SpecText: a text is typed character by character, or is the example of  *)
(* the format, and is parsed.                                              *)
(***************************************************************************)
TextChars == {"A", "2", "(", ")", ",", ";", "\\"}

Example ==
    <<"(", "A", ",", "B", ",", "(", "C", ",", "D", ")", "E", ")", "F", ";">>

type(ch) ==
    /\ root = Null
    /\ Len(text) < MaxTextLen
    /\ text' = Append(text, ch)
    /\ last' = Call("type", Null, Null, 0, "ok")
    /\ UNCHANGED <<parent, children, data, root, layoutVars>>

InitText ==
    /\ parent = <<>>
    /\ children = <<>>
    /\ data = <<>>
    /\ text \in {<<>>, Example}
    /\ root = Null
    /\ last = NoCall
    /\ collapsed = {}
    /\ leafPosition = <<>>
    /\ leftMargin = <<>>
    /\ rightMargin = <<>>
    /\ realignShift = <<>>

NextText ==
    \/ \E ch \in TextChars : type(ch)
    \/ parse

SpecText == InitText /\ [][NextText]_vars

\* n and its ancestors in the tree of the parent sequence pv
RECURSIVE pathToRoot(_, _)
pathToRoot(pv, n) ==
    IF pv[n] = Null THEN {n} ELSE {n} \cup pathToRoot(pv, pv[n])

\* the parent sequences of the trees of k nodes, the nodes being numbered
\* in depth-first order from left to right: every shape of an ordered tree
\* occurs once
RECURSIVE shapes(_)
shapes(k) ==
    IF k = 1 THEN {<<Null>>}
    ELSE UNION {{Append(pv, p) : p \in pathToRoot(pv, k - 1)} :
                   pv \in shapes(k - 1)}

(***************************************************************************)
(* Tree.find with an exact value as the matcher (data === val): the queue  *)
(* starts with the receiver; the children of the node at ptr are tested in *)
(* order and the first match is returned, otherwise they are all queued.   *)
(* The result is the node found, or Null.                                  *)
(***************************************************************************)
RECURSIVE findDepthFirst(_, _, _, _)
\* a search that goes down into each child before it tests the next one
findDepthFirst(ch, dat, X, val) ==
    LET RECURSIVE scan(_)
        scan(i) ==
            IF i > Len(ch[X]) THEN Null
            ELSE IF dat[ch[X][i]] = val THEN ch[X][i]
            ELSE LET r == findDepthFirst(ch, dat, ch[X][i], val)
                 IN  IF r # Null THEN r ELSE scan(i + 1)
    IN  scan(1)

RECURSIVE findLoop(_, _, _, _, _)
findLoop(ch, dat, queue, ptr, val) ==
    IF ptr > Len(queue) THEN Null
    ELSE LET kids == ch[queue[ptr]]
             hits == {i \in 1..Len(kids) : dat[kids[i]] = val}
         IN  IF hits # {}
             THEN kids[CHOOSE i \in hits : \A j \in hits : i <= j]
             ELSE findLoop(ch, dat, queue \o kids, ptr + 1, val)

findOf(ch, dat, X, val) == findLoop(ch, dat, <<X>>, 1, val)

\* a value that is the label of no node
NoLabel == <<"Z">>

\* X.find(val); the value searched for is kept as the text
find(X, val) ==
    /\ last.op = "none"
    /\ text' = val
    /\ last' = Call("find", X, findOf(children, data, X, val), 0, "ok")
    /\ UNCHANGED <<parent, children, data, root, layoutVars>>

NextFind ==
    \E X \in DOMAIN parent :
      \E val \in {data[n] : n \in DOMAIN data} \cup {NoLabel} : find(X, val)

MaxFindNodes == 5     \* nodes of a tree that is searched

\* the labels of the nodes of a tree that is searched
FindLabels == {<<"A">>, <<"B">>}

\* the trees of up to MaxFindNodes nodes with any labels
InitFind ==
    \E k \in 1..MaxFindNodes :
      \E pv \in shapes(k) :
        \E labels \in [1..k -> FindLabels] :
          /\ parent = pv
          /\ children = [n \in 1..k |-> ascending({j \in 2..k : pv[j] = n})]
          /\ data = labels
          /\ text = <<>>
          /\ root = Null
          /\ last = NoCall
          /\ collapsed = {}
          /\ leafPosition = <<>>
          /\ leftMargin = <<>>
          /\ rightMargin = <<>>
          /\ realignShift = <<>>

SpecFind == InitFind /\ [][NextFind]_vars

(***************************************************************************)
(* The layout of SVGTree.render(): pass 1 (_setLeafPositions), pass 2      *)
(* (_realign with _calculateMargins) and the assignment of coordinates.   *)
(* A position is a JavaScript number; every position the two passes       *)
(* produce is a multiple of 1/Scale, and the model keeps the integer      *)
(* v * Scale for the number v.                                             *)
(***************************************************************************)
MaxLayoutNodes == 8   \* nodes of a tree that is laid out

Scale == 2 ^ MaxLayoutNodes

\* var MAX = 1000000 of _realign
MAX == 1000000 * Scale

\* the number 1 in the scaled representation
One == Scale

\* (a + b) / 2
half(v) == v \div 2

min(a, b) == IF a <= b THEN a ELSE b

max(a, b) == IF a >= b THEN a ELSE b

isLeaf(ch, n) == Len(ch[n]) = 0

\* the 0-based index of the pivot child among len children
pivotOf(len) == IF len % 2 = 1 THEN (len - 1) \div 2 ELSE len \div 2 - 1

\* the fields of the node n: <<>> for an undefined field, <<v>> for the
\* number v, the sequence of its numbers for a margin array
leafPositionOf(n) ==
    IF n \in DOMAIN leafPosition THEN <<leafPosition[n]>> ELSE <<>>

leftMarginOf(n) == IF n \in DOMAIN leftMargin THEN leftMargin[n] ELSE <<>>

rightMarginOf(n) == IF n \in DOMAIN rightMargin THEN rightMargin[n] ELSE <<>>

\* the field collapsed of every node
isCollapsed == [n \in DOMAIN parent |-> n \in collapsed]

\* the layout fields of all nodes as one value
Layout ==
    [pos |-> [n \in DOMAIN parent |-> leafPositionOf(n)],
     lm |-> [n \in DOMAIN parent |-> leftMarginOf(n)],
     rm |-> [n \in DOMAIN parent |-> rightMarginOf(n)],
     sh |-> [n \in DOMAIN parent |->
                IF n \in DOMAIN realignShift THEN <<realignShift[n]>>
                ELSE <<>>]]

\* the nodes on which a field is defined, with its number
numbersOf(f) == [n \in {m \in DOMAIN f : f[m] # <<>>} |-> f[n][1]]

\* the nodes on which a margin is defined, with the margin
marginsOf(f) == [n \in {m \in DOMAIN f : f[m] # <<>>} |-> f[n]]

\* the collapsed flag is ignored: the descendants of a collapsed node are
\* numbered as well
RECURSIVE setLeafPositionsIntoCollapsed(_, _, _, _, _)
setLeafPositionsIntoCollapsed(ch, col, pos, n, start) ==
    IF isLeaf(ch, n)
    THEN [pos |-> [pos EXCEPT ![n] = <<start * One>>], start |-> start + 1]
    ELSE LET len == Len(ch[n])
             RECURSIVE loop(_, _)
             loop(r, i) ==
                 IF i >= len THEN r
                 ELSE loop(setLeafPositionsIntoCollapsed(ch, col, r.pos,
                                                         ch[n][i + 1],
                                                         r.start),
                           i + 1)
             r == loop([pos |-> pos, start |-> start], 0)
         IN  [pos |-> [r.pos EXCEPT ![n] =
                          IF len % 2 = 1
                          THEN r.pos[ch[n][(len - 1) \div 2 + 1]]
                          ELSE <<half(r.pos[ch[n][len \div 2]][1]
                                      + r.pos[ch[n][len \div 2 + 1]][1])>>],
              start |-> r.start]

\* _setLeafPositions(start) on n: the new positions and the returned number
RECURSIVE setLeafPositionsOf(_, _, _, _, _)
setLeafPositionsOf(ch, col, pos, n, start) ==
    IF isLeaf(ch, n) \/ col[n]
    THEN [pos |-> [pos EXCEPT ![n] = <<start * One>>], start |-> start + 1]
    ELSE LET len == Len(ch[n])
             RECURSIVE loop(_, _)
             loop(r, i) ==
                 IF i >= len THEN r
                 ELSE loop(setLeafPositionsOf(ch, col, r.pos,
                                              ch[n][i + 1], r.start),
                           i + 1)
             r == loop([pos |-> pos, start |-> start], 0)
         IN  [pos |-> [r.pos EXCEPT ![n] =
                          IF len % 2 = 1
                          THEN r.pos[ch[n][(len - 1) \div 2 + 1]]
                          ELSE <<half(r.pos[ch[n][len \div 2]][1]
                                      + r.pos[ch[n][len \div 2 + 1]][1])>>],
              start |-> r.start]

RECURSIVE visualLoop(_, _, _, _)
visualLoop(ch, col, queue, ptr) ==
    IF ptr >= Len(queue) THEN queue
    ELSE visualLoop(ch, col,
                    IF ~col[queue[ptr + 1]]
                    THEN queue \o ch[queue[ptr + 1]]
                    ELSE queue,
                    ptr + 1)

\* visualQueue(): n and its visible descendants, breadth first
visualQueue(ch, col, n) == visualLoop(ch, col, <<n>>, 0)

\* the loops over d of _calculateMargins: the margin of a child is merged
\* one level down into the margin of the node, with Math.min for a left
\* margin and Math.max for a right one
mergeMargin(own, margin, isLeft) ==
    [e \in 1..max(Len(own), Len(margin) + 1) |->
        IF e = 1 \/ e - 1 > Len(margin) THEN own[e]
        ELSE IF e > Len(own) THEN margin[e - 1]
        ELSE IF isLeft THEN min(margin[e - 1], own[e])
        ELSE max(margin[e - 1], own[e])]

\* _calculateMargins() on n
calculateMargins(ch, col, L, n) ==
    LET own == L.pos[n]
        kids == ch[n]
        RECURSIVE left(_, _)
        left(acc, i) ==
            IF i >= Len(kids) THEN acc
            ELSE left(mergeMargin(acc, L.lm[kids[i + 1]], TRUE), i + 1)
        RECURSIVE right(_, _)
        right(acc, i) ==
            IF i >= Len(kids) THEN acc
            ELSE right(mergeMargin(acc, L.rm[kids[i + 1]], FALSE), i + 1)
    IN  IF col[n] THEN [L EXCEPT !.lm[n] = own, !.rm[n] = own]
        ELSE [L EXCEPT
                !.lm[n] = left(IF Len(kids) > 0 THEN L.pos[kids[1]]
                               ELSE own, 0),
                !.rm[n] = right(IF Len(kids) > 0 THEN L.pos[kids[Len(kids)]]
                                ELSE own, 0)]

\* the smallest element of a non-empty set of integers
Minimum(S) == CHOOSE v \in S : \A w \in S : v <= w

\* the gap of one unit is not kept
shiftOfNoGap(ch, par, L, n) ==
    LET pos == position(par, ch, n)
        siblings == ch[par[n]]
        pivot == pivotOf(Len(siblings))
        thisMargin == IF pos < pivot THEN L.rm[n] ELSE L.lm[n]
        dir == IF pos < pivot THEN 1 ELSE -1
        scanned == IF pos < pivot THEN (pos + 1)..(Len(siblings) - 1)
                   ELSE 0..(pos - 1)
        siblingMargin(si) == IF pos < pivot THEN L.lm[siblings[si + 1]]
                             ELSE L.rm[siblings[si + 1]]
        margin(d) == IF d < Len(thisMargin) THEN thisMargin[d + 1]
                     ELSE (0 - dir) * MAX
        gaps(si) == {dir * (siblingMargin(si)[d + 1] - margin(d)) :
                        d \in 0..(Len(siblingMargin(si)) - 1)}
    IN  dir * Minimum({MAX} \cup UNION {gaps(si) : si \in scanned})

\* the shift of _realign for a node that is not the pivot of its parent:
\* the siblings between the node and the far end of the pivot's side are
\* scanned, one without a margin is skipped
shiftOf(ch, par, L, n) ==
    LET pos == position(par, ch, n)
        siblings == ch[par[n]]
        pivot == pivotOf(Len(siblings))
        thisMargin == IF pos < pivot THEN L.rm[n] ELSE L.lm[n]
        dir == IF pos < pivot THEN 1 ELSE -1
        scanned == IF pos < pivot THEN (pos + 1)..(Len(siblings) - 1)
                   ELSE 0..(pos - 1)
        siblingMargin(si) == IF pos < pivot THEN L.lm[siblings[si + 1]]
                             ELSE L.rm[siblings[si + 1]]
        margin(d) == IF d < Len(thisMargin) THEN thisMargin[d + 1]
                     ELSE (0 - dir) * MAX
        gaps(si) == {dir * (siblingMargin(si)[d + 1] - margin(d)) - One :
                        d \in 0..(Len(siblingMargin(si)) - 1)}
    IN  dir * Minimum({MAX} \cup UNION {gaps(si) : si \in scanned})

\* every number of a margin is moved by shift
moved(margin, shift) == [d \in 1..Len(margin) |-> margin[d] + shift]

\* lines 803-838 of _realign on n, which has a parent: the node, its margins
\* and its visible descendants are moved by the shift
shifted(ch, par, col, L, n) ==
    IF position(par, ch, n) = pivotOf(Len(ch[par[n]])) THEN L
    ELSE LET shift == shiftOf(ch, par, L, n)
             queue == visualQueue(ch, col, n)
             below == {queue[i] : i \in 2..Len(queue)}
         IN  [pos |-> [m \in DOMAIN L.pos |->
                          IF m = n \/ m \in below
                          THEN <<L.pos[m][1] + shift>> ELSE L.pos[m]],
              lm |-> [L.lm EXCEPT ![n] = moved(L.lm[n], shift)],
              rm |-> [L.rm EXCEPT ![n] = moved(L.rm[n], shift)],
              sh |-> [L.sh EXCEPT ![n] = <<shift>>]]

\* the margins are reset to a margin at the origin instead of being deleted
dropMarginsToOrigin(ch, col, L, n) ==
    LET queue == visualQueue(ch, col, n)
        seen == {queue[i] : i \in 1..Len(queue)}
    IN  [pos |-> L.pos,
         lm |-> [m \in DOMAIN L.lm |-> IF m \in seen THEN <<0>> ELSE L.lm[m]],
         rm |-> [m \in DOMAIN L.rm |-> IF m \in seen THEN <<0>> ELSE L.rm[m]],
         sh |-> L.sh]

\* lines 788-797 of _realign on n, which has no parent: the margins of n
\* and of its visible descendants are deleted
dropMargins(ch, col, L, n) ==
    LET queue == visualQueue(ch, col, n)
        seen == {queue[i] : i \in 1..Len(queue)}
    IN  [pos |-> L.pos,
         lm |-> [m \in DOMAIN L.lm |-> IF m \in seen THEN <<>> ELSE L.lm[m]],
         rm |-> [m \in DOMAIN L.rm |-> IF m \in seen THEN <<>> ELSE L.rm[m]],
         sh |-> L.sh]

\* the order in which _realign calls itself on len children: from the pivot
\* down to the first child, then from the pivot's right neighbour up
realignOrder(len) ==
    [j \in 1..len |-> IF j <= pivotOf(len) + 1 THEN pivotOf(len) + 1 - j
                      ELSE j - 1]

RECURSIVE realignOf(_, _, _, _, _)

\* the node is not centred again after its children have moved
realignChildrenNoCentre(ch, par, col, L, n) ==
    IF ~col[n] /\ ~isLeaf(ch, n)
    THEN LET len == Len(ch[n])
             order == realignOrder(len)
             RECURSIVE loop(_, _)
             loop(M, j) ==
                 IF j > len THEN M
                 ELSE loop(realignOf(ch, par, col, M, ch[n][order[j] + 1]),
                           j + 1)
         IN  loop(L, 1)
    ELSE L

\* lines 774-786 of _realign on n: the children are realigned and n is
\* centred over its pivot
realignChildren(ch, par, col, L, n) ==
    IF ~col[n] /\ ~isLeaf(ch, n)
    THEN LET len == Len(ch[n])
             pivot == pivotOf(len)
             order == realignOrder(len)
             RECURSIVE loop(_, _)
             loop(M, j) ==
                 IF j > len THEN M
                 ELSE loop(realignOf(ch, par, col, M, ch[n][order[j] + 1]),
                           j + 1)
             M == loop(L, 1)
         IN  [M EXCEPT !.pos[n] =
                 IF len % 2 = 0
                 THEN <<half(M.pos[ch[n][pivot + 1]][1]
                             + M.pos[ch[n][pivot + 2]][1])>>
                 ELSE M.pos[ch[n][pivot + 1]]]
    ELSE L

\* _realign() on n
realignOf(ch, par, col, L, n) ==
    IF ~Truthy(par[n])
    THEN dropMargins(ch, col, realignChildren(ch, par, col, L, n), n)
    ELSE shifted(ch, par, col,
                 calculateMargins(ch, col,
                                  realignChildren(ch, par, col, L, n), n),
                 n)

\* the field _leafPosition of every node of the queue stays
setCoordinatesKeeping(pos, queue) == pos

\* the loop of render() over the queue: _setCoordinates() deletes the field
\* _leafPosition of every node of the queue
setCoordinatesOf(pos, queue) ==
    [m \in DOMAIN pos |->
        IF \E i \in 1..Len(queue) : queue[i] = m THEN <<>> ELSE pos[m]]

\* render(), lines 1411-1415: root._setLeafPositions()
setLeafPositions ==
    /\ last.op \in {"none", "render"}
    /\ leafPosition' =
           numbersOf(setLeafPositionsOf(children, isCollapsed, Layout.pos,
                                        root, 0).pos)
    /\ last' = Call("setLeafPositions", root, Null, 0, "ok")
    /\ UNCHANGED <<parent, children, data, text, root, collapsed,
                   leftMargin, rightMargin, realignShift>>

\* render(), line 1416: root._realign() up to line 787, where the
\* descendants of the root have been realigned and the root is centred
realignBody ==
    /\ last.op = "setLeafPositions"
    /\ \E L \in {realignChildren(children, parent, isCollapsed,
                                  [Layout EXCEPT
                                      !.sh = [n \in DOMAIN parent |-> <<>>]],
                                  root)} :
           /\ leafPosition' = numbersOf(L.pos)
           /\ leftMargin' = marginsOf(L.lm)
           /\ rightMargin' = marginsOf(L.rm)
           /\ realignShift' = numbersOf(L.sh)
    /\ last' = Call("realignBody", root, Null, 0, "ok")
    /\ UNCHANGED <<parent, children, data, text, root, collapsed>>

\* render(), line 1416: root._realign() from line 788 to its return
realign ==
    /\ last.op = "realignBody"
    /\ \E L \in {dropMargins(children, isCollapsed, Layout, root)} :
           /\ leafPosition' = numbersOf(L.pos)
           /\ leftMargin' = marginsOf(L.lm)
           /\ rightMargin' = marginsOf(L.rm)
           /\ realignShift' = numbersOf(L.sh)
    /\ last' = Call("realign", root, Null, 0, "ok")
    /\ UNCHANGED <<parent, children, data, text, root, collapsed>>

\* render(), lines 1417-1419: _setCoordinates() on every node of the queue
\* that line 1411 took from root.visualQueue()
setCoordinates ==
    /\ last.op = "realign"
    /\ leafPosition' =
           numbersOf(setCoordinatesOf(Layout.pos,
                                      visualQueue(children, isCollapsed,
                                                  root)))
    /\ last' = Call("render", root, Null, 0, "ok")
    /\ UNCHANGED <<parent, children, data, text, root, collapsed,
                   leftMargin, rightMargin, realignShift>>

\* the trees of up to MaxLayoutNodes nodes that SVGTree.root can hold, with
\* every choice of collapsed nodes that collapse() allows (a node with
\* children); no layout is under way
InitLayout ==
    \E k \in 1..MaxLayoutNodes :
      \E pv \in shapes(k) :
        \E hidden \in SUBSET {n \in 1..k : \E j \in 2..k : pv[j] = n} :
          /\ parent = pv
          /\ children = [n \in 1..k |-> ascending({j \in 2..k : pv[j] = n})]
          /\ data = [n \in 1..k |-> <<>>]
          /\ text = <<>>
          /\ root = 1
          /\ last = NoCall
          /\ collapsed = hidden
          /\ leafPosition = <<>>
          /\ leftMargin = <<>>
          /\ rightMargin = <<>>
          /\ realignShift = <<>>

NextLayout ==
    \/ setLeafPositions
    \/ realignBody
    \/ realign
    \/ setCoordinates

SpecLayout == InitLayout /\ [][NextLayout]_vars

MaxRealignNodes == 10   \* nodes of a tree that is laid out fully expanded

\* the trees of up to MaxRealignNodes nodes that SVGTree.root can hold when
\* no node is collapsed, as after SVGTree.parse; no layout is under way
InitRealign ==
    \E k \in 1..MaxRealignNodes :
      \E pv \in shapes(k) :
          /\ parent = pv
          /\ children = [n \in 1..k |-> ascending({j \in 2..k : pv[j] = n})]
          /\ data = [n \in 1..k |-> <<>>]
          /\ text = <<>>
          /\ root = 1
          /\ last = NoCall
          /\ collapsed = {}
          /\ leafPosition = <<>>
          /\ leftMargin = <<>>
          /\ rightMargin = <<>>
          /\ realignShift = <<>>

SpecRealign == InitRealign /\ [][NextLayout]_vars

(***************************************************************************)
(* SVGTreeNode.insertContent with a node object as its argument.  The      *)
(* calls it makes run on a copy of the heap, h = [par, ch, rt, out]: the   *)
(* parent and children fields, SVGTree.root and the outcome so far.  A     *)
(* TypeError ends the handler, and what was modified before it stays       *)
(* modified.                                                               *)
(***************************************************************************)
MaxContentNodes == 4   \* nodes of the tree shown when insertContent is called

\* Tree.detach on the heap h
detachOf(h, n) ==
    [h EXCEPT !.ch = IF Truthy(h.par[n])
                     THEN removeChildOf(h.ch, h.par[n], n)
                     ELSE h.ch,
              !.par = [h.par EXCEPT ![n] = Undef]]

\* Tree.insert on the heap h; nothing runs after a TypeError
insertOf(h, X, c, p) ==
    IF h.out # "ok" THEN h
    ELSE IF h.par[c] # Null /\ ~IsNode(h.par[c])
    THEN [h EXCEPT !.out = "TypeError"]
    ELSE LET pos == insertIndex(h.par, h.ch, X, c, p)
             ch1 == IF h.par[c] # Null
                    THEN removeChildOf(h.ch, h.par[c], c)
                    ELSE h.ch
         IN  [h EXCEPT !.ch = [ch1 EXCEPT ![X] = spliceIn(@, pos, c)],
                       !.par = [h.par EXCEPT ![c] = X]]

RECURSIVE queueLoop(_, _, _)
\* the while loop of SVGTreeNode.queue; ptr counts from 1
queueLoop(ch, q, ptr) ==
    IF ptr > Len(q) THEN q ELSE queueLoop(ch, q \o ch[q[ptr]], ptr + 1)

\* SVGTreeNode.queue: the node and its descendants, breadth first
queue(ch, n) == queueLoop(ch, <<n>>, 1)

(***************************************************************************)
(* The body of insertContent.  When the receiver X stands in node.queue()  *)
(* both are detached and X is put in node's former place (or made the      *)
(* root; X is not the root there and has an edge to remove, being drawn);  *)
(* then node is inserted into X at index p.  The final comparison with     *)
(* oldPosition only decides whether the tree is drawn again.               *)
(***************************************************************************)
insertContentOf(par, ch, rt, X, node, p) ==
    LET h0 == [par |-> par, ch |-> ch, rt |-> rt, out |-> "ok"]
        q == queue(ch, node)
        nodePos == position(par, ch, node)
        nodeParent == par[node]
        h1 == IF \E i \in 1..Len(q) : q[i] = X
              THEN LET d == detachOf(detachOf(h0, X), node)
                   IN  IF Truthy(nodeParent)
                       THEN insertOf(d, nodeParent, X, nodePos)
                       ELSE [d EXCEPT !.rt = X]
              ELSE h0
    IN  insertOf(h1, X, node, p)

insertContent(X, node, p) ==
    \E h \in {insertContentOf(parent, children, root, X, node, p)} :
        /\ parent' = h.par
        /\ children' = h.ch
        /\ root' = h.rt
        /\ last' = Call("insertContent", X, node, p, h.out)
        /\ UNCHANGED <<data, text, layoutVars>>

\* the trees of up to MaxContentNodes nodes that SVGTree.root can hold after
\* SVGTree.parse
InitContent ==
    \E k \in 1..MaxContentNodes :
      \E pv \in shapes(k) :
          /\ parent = pv
          /\ children = [n \in 1..k |-> ascending({j \in 2..k : pv[j] = n})]
          /\ data = [n \in 1..k |-> <<>>]
          /\ text = <<>>
          /\ root = 1
          /\ last = NoCall
          /\ collapsed = {}
          /\ leafPosition = <<>>
          /\ leftMargin = <<>>
          /\ rightMargin = <<>>
          /\ realignShift = <<>>

\* the nodes dragged and dropped are nodes of that tree; the index is left
\* out (the end of the children) or given within the children
NextContent ==
    \E X \in DOMAIN parent, node \in DOMAIN parent :
        \E p \in 0..Len(children[X]) : insertContent(X, node, p)

SpecContent == InitContent /\ [][NextContent]_vars

(***************************************************************************)
(* Helpers of the properties.                                              *)
(***************************************************************************)
Contains(seq, elem) == \E i \in 1..Len(seq) : seq[i] = elem

Without(seq, elem) == SelectSeq(seq, LAMBDA e : e # elem)

Attach == {"append", "prepend", "insert"}

\* c is a fresh root, or sits among the children of its parent
WellAttached(par, ch, c) ==
    \/ par[c] = Null
    \/ IsNode(par[c]) /\ Contains(ch[par[c]], c)

\* the trees rooted at a and at b have the same shape, child order and labels
RECURSIVE sameTree(_, _)
sameTree(a, b) ==
    /\ data[a] = data[b]
    /\ Len(children[a]) = Len(children[b])
    /\ \A i \in 1..Len(children[a]) :
          sameTree(children[a][i], children[b][i])

\* the number of unescaped occurrences of ch in the text from index i on
RECURSIVE countFrom(_, _, _)
countFrom(txt, ch, i) ==
    IF i > Len(txt) THEN 0
    ELSE IF txt[i] = "\\" THEN countFrom(txt, ch, i + 2)
    ELSE (IF txt[i] = ch THEN 1 ELSE 0) + countFrom(txt, ch, i + 1)

Unbalanced(txt) == countFrom(txt, "(", 1) # countFrom(txt, ")", 1)

(***************************************************************************)
(* The grammar of the format: tree := subtree ';', subtree := childlist?   *)
(* label, childlist := '(' subtree (',' subtree)* ')', a label being a     *)
(* possibly empty string of unreserved characters and of reserved ones     *)
(* behind a backslash.  Each recognizer returns the index behind what it   *)
(* recognized from index i on, or 0.                                       *)
(***************************************************************************)
RECURSIVE endOfLabel(_, _)
endOfLabel(txt, i) ==
    IF i > Len(txt) THEN i
    ELSE IF txt[i] = "\\"
         THEN IF i + 1 <= Len(txt) /\ txt[i + 1] \in Reserved
              THEN endOfLabel(txt, i + 2)
              ELSE 0
    ELSE IF txt[i] \in Reserved THEN i
    ELSE endOfLabel(txt, i + 1)

RECURSIVE endOfSubtree(_, _)
RECURSIVE endOfChildren(_, _)
endOfChildren(txt, i) ==
    LET j == endOfSubtree(txt, i)
    IN  IF j = 0 \/ j > Len(txt) THEN 0
        ELSE IF txt[j] = "," THEN endOfChildren(txt, j + 1)
        ELSE IF txt[j] = ")" THEN j + 1
        ELSE 0

endOfSubtree(txt, i) ==
    IF i <= Len(txt) /\ txt[i] = "("
    THEN LET j == endOfChildren(txt, i + 1)
         IN  IF j = 0 THEN 0 ELSE endOfLabel(txt, j)
    ELSE endOfLabel(txt, i)

WellFormed(txt) ==
    LET j == endOfSubtree(txt, 1)
    IN  j # 0 /\ j = Len(txt) /\ txt[j] = ";"

(***************************************************************************)
(* C1: parsing the text that newick() produces for the root of a tree into *)
(* a fresh receiver gives a tree with the same shape, the same child order *)
(* and the same label at every node.                                       *)
(***************************************************************************)
C1_NewickThenParse ==
    last.op = "parse" => (last.out = "ok" /\ sameTree(1, root))

\* a parsed tree of three nodes or more, one label with a reserved character
C1_Witness ==
    /\ last.op = "parse"
    /\ last.out = "ok"
    /\ root >= 4
    /\ Len(children[root]) >= 1
    /\ \E n \in DOMAIN data : n > root /\ \E i \in 1..Len(data[n]) :
          data[n][i] \in Reserved

(***************************************************************************)
(* C2: for a text with unbalanced parentheses parseInto fails, and         *)
(* SVGTree.parse returns a single leaf node, without children, whose label *)
(* is the whole text.                                                      *)
(***************************************************************************)
C2_UnbalancedGivesLeaf ==
    (last.op = "parse" /\ Unbalanced(text))
    => (/\ last.out # "ok"
        /\ children[root] = <<>>
        /\ data[root] = text)

(***************************************************************************)
(* C3: after any sequence of append, prepend, insert, removeChild and      *)
(* detach calls, no node holds a parent reference to a node whose children *)
(* do not contain it: every node either has no parent reference or is      *)
(* among the children of its parent.                                       *)
(***************************************************************************)
C3_ParentContainsChild ==
    \A n \in DOMAIN parent :
        IsNode(parent[n]) => Contains(children[parent[n]], n)

(***************************************************************************)
(* C4: after any sequence of append, prepend, insert and detach calls with *)
(* arbitrary node arguments, no node is its own ancestor.                  *)
(***************************************************************************)
C4_NoCycle ==
    \A n \in DOMAIN parent : ~IsAncestor(parent, n, n)

(***************************************************************************)
(* C5: attaching a node with append, prepend or insert to a receiver that  *)
(* is not in the node's subtree (in particular a node that was detached    *)
(* before) completes without an error and leaves the node among the        *)
(* receiver's children with the receiver as its parent.                    *)
(***************************************************************************)
C5_DetachedCanBeAttached ==
    (/\ last.op \in Attach
     /\ last.x # last.c
     /\ ~IsAncestor(parent, last.c, last.x))
    => (/\ last.out = "ok"
        /\ parent[last.c] = last.x
        /\ Contains(children[last.x], last.c))

(***************************************************************************)
(* C6: X.append(c), for c a fresh root or a node among the children of its *)
(* parent P, leaves X with its previous children without c, in order,      *)
(* followed by c; c's parent is X; P (if it is not X) keeps its previous   *)
(* children without c; every other node's children are unchanged.          *)
(* X.prepend(c) does the same with c at index 0.                           *)
(***************************************************************************)
C6_AppendPrependEffect ==
    [][ (/\ last'.op \in {"append", "prepend"}
         /\ WellAttached(parent, children, last'.c))
        => LET X == last'.x
               c == last'.c
               P == parent[c]
           IN  /\ last'.out = "ok"
               /\ children'[X] =
                     IF last'.op = "append"
                     THEN Without(children[X], c) \o <<c>>
                     ELSE <<c>> \o Without(children[X], c)
               /\ parent'[c] = X
               /\ (IsNode(P) /\ P # X) =>
                     children'[P] = Without(children[P], c)
               /\ \A n \in DOMAIN children :
                     (n # X /\ n # P) => children'[n] = children[n]
               /\ \A n \in DOMAIN parent :
                     n # c => parent'[n] = parent[n]
      ]_vars

\* an append that put c behind an earlier child of another node X
C6_Witness ==
    /\ last.op = "append"
    /\ last.out = "ok"
    /\ last.x # last.c
    /\ Len(children[last.x]) = 2
    /\ children[last.x][2] = last.c
    /\ children[last.x][1] # last.x

(***************************************************************************)
(* C7: when c is a child of X at index i and 0 <= p <= number of X's       *)
(* children, X.insert(c, p) keeps X's children the same nodes, puts c at   *)
(* index p-1 if i < p and at index p otherwise, and keeps the other        *)
(* children in their previous relative order.                              *)
(***************************************************************************)
C7_SelfMoveInsert ==
    [][ (/\ last'.op = "insert"
         /\ parent[last'.c] = last'.x
         /\ Contains(children[last'.x], last'.c)
         /\ last'.p \in 0..Len(children[last'.x]))
        => LET X == last'.x
               c == last'.c
               p == last'.p
               i == indexOf(children[X], c)
           IN  /\ last'.out = "ok"
               /\ Len(children'[X]) = Len(children[X])
               /\ indexOf(children'[X], c) = IF i < p THEN p - 1 ELSE p
               /\ Without(children'[X], c) = Without(children[X], c)
               /\ parent'[c] = X
      ]_vars

\* insert(c, 2) on a node with two children ended with c at index 1
C7_Witness ==
    /\ last.op = "insert"
    /\ last.out = "ok"
    /\ last.p = 2
    /\ last.x # last.c
    /\ Len(children[last.x]) = 2
    /\ indexOf(children[last.x], last.c) = 1
    /\ children[last.x][1] # last.x

(***************************************************************************)
(* C8: for every node n of every reachable state, n.root() terminates      *)
(* without an error and returns a node without parent that is n or an      *)
(* ancestor of n.                                                          *)
(***************************************************************************)
C8_RootTotal ==
    \A n \in DOMAIN parent :
        LET r == rootOf(parent, n)
        IN  /\ r.out = "ok"
            /\ ~IsNode(parent[r.ret])
            /\ (r.ret = n \/ IsAncestor(parent, r.ret, n))

(***************************************************************************)
(* C9: X.removeChild(c) with c not among X's children, and n.detach() on a *)
(* node without a parent, change no children sequence and no parent        *)
(* reference and raise no error.                                           *)
(***************************************************************************)
C9_RedundantCallsChangeNothing ==
    [][ /\ (last'.op = "removeChild"
              /\ ~Contains(children[last'.x], last'.c))
           => (last'.out = "ok" /\ UNCHANGED <<parent, children>>)
        /\ (last'.op = "detach" /\ ~IsNode(parent[last'.x]))
           => (last'.out = "ok" /\ UNCHANGED <<parent, children>>)
      ]_vars

(***************************************************************************)
(* C10: parsing a well-formed text of the grammar and serializing the      *)
(* result with newick() reproduces the text, and the children come in the  *)
(* order of the text: the example gives root F with the children A, B, E   *)
(* and E with the children C, D.                                           *)
(***************************************************************************)
C10_ParseThenNewick ==
    (last.op = "parse" /\ WellFormed(text))
    => (/\ last.out = "ok"
        /\ newickOf(children, data, root) = text
        /\ text = Example =>
             /\ data[root] = <<"F">>
             /\ Len(children[root]) = 3
             /\ data[children[root][1]] = <<"A">>
             /\ data[children[root][2]] = <<"B">>
             /\ data[children[root][3]] = <<"E">>
             /\ children[children[root][1]] = <<>>
             /\ children[children[root][2]] = <<>>
             /\ Len(children[children[root][3]]) = 2
             /\ data[children[children[root][3]][1]] = <<"C">>
             /\ data[children[children[root][3]][2]] = <<"D">>)

\* the example text has been parsed
C10_Witness ==
    /\ last.op = "parse"
    /\ last.out = "ok"
    /\ text = Example
    /\ WellFormed(text)
    /\ Len(children[root]) = 3

\* the parentheses of the text nest properly (escaped characters aside)
RECURSIVE nestsFrom(_, _, _)
nestsFrom(txt, i, depth) ==
    IF i > Len(txt) THEN depth = 0
    ELSE IF txt[i] = "\\" THEN nestsFrom(txt, i + 2, depth)
    ELSE IF txt[i] = "(" THEN nestsFrom(txt, i + 1, depth + 1)
    ELSE IF txt[i] = ")" THEN depth > 0 /\ nestsFrom(txt, i + 1, depth - 1)
    ELSE nestsFrom(txt, i + 1, depth)

\* an unescaped comma outside every pair of parentheses
RECURSIVE strayCommaFrom(_, _, _)
strayCommaFrom(txt, i, depth) ==
    IF i > Len(txt) THEN FALSE
    ELSE IF txt[i] = "\\" THEN strayCommaFrom(txt, i + 2, depth)
    ELSE IF txt[i] = "(" THEN strayCommaFrom(txt, i + 1, depth + 1)
    ELSE IF txt[i] = ")" THEN strayCommaFrom(txt, i + 1, depth - 1)
    ELSE IF txt[i] = "," /\ depth = 0 THEN TRUE
    ELSE strayCommaFrom(txt, i + 1, depth)

StrayComma(txt) == nestsFrom(txt, 1, 0) /\ strayCommaFrom(txt, 1, 0)

\* a backslash that is the last character or stands before an unreserved one
RECURSIVE badEscapeFrom(_, _)
badEscapeFrom(txt, i) ==
    IF i > Len(txt) THEN FALSE
    ELSE IF txt[i] = "\\"
         THEN \/ i + 1 > Len(txt)
              \/ txt[i + 1] \notin Reserved
              \/ badEscapeFrom(txt, i + 2)
    ELSE badEscapeFrom(txt, i + 1)

(***************************************************************************)
(* C11: a text with a comma outside any parentheses (several top-level     *)
(* subtrees) is a parse failure: parseInto does not return normally.       *)
(***************************************************************************)
C11_StrayCommaFails ==
    (last.op = "parse" /\ StrayComma(text)) => last.out # "ok"

(***************************************************************************)
(* C12: for a text in which a backslash stands before an unreserved        *)
(* character or at the end, tokenize fails with the invalid-escape error   *)
(* instead of returning tokens.                                            *)
(***************************************************************************)
C12_InvalidEscapeRejected ==
    badEscapeFrom(text, 1) => tokenize(text).out = "throw"

(***************************************************************************)
(* C13, as claimed: for every string s, tokenize(escape(s) + ';') is one   *)
(* label fragment equal to s followed by the SEMICOLON marker.             *)
(***************************************************************************)
C13_EscapeThenTokenizeAny ==
    /\ tokenize(escape(text) \o <<";">>).out = "ok"
    /\ tokenize(escape(text) \o <<";">>).tokens = <<Str(text), Mark(SEMICOLON)>>

(***************************************************************************)
(* C13, amended: for every non-empty string s, tokenize(escape(s) + ';')   *)
(* is one label fragment equal to s followed by the SEMICOLON marker; for  *)
(* the empty string it is the SEMICOLON marker alone.                      *)
(***************************************************************************)
C13_EscapeThenTokenize ==
    last.op # "parse" =>
        \E r \in {tokenize(escape(text) \o <<";">>)} :
            /\ r.out = "ok"
            /\ r.tokens = IF text = <<>> THEN <<Mark(SEMICOLON)>>
                          ELSE <<Str(text), Mark(SEMICOLON)>>

\* a typed string that holds each of the five reserved characters
C13_Witness ==
    /\ last.op = "type"
    /\ \A r \in Reserved : \E i \in 1..Len(text) : text[i] = r
    /\ tokenize(escape(text) \o <<";">>).tokens = <<Str(text), Mark(SEMICOLON)>>

\* the child indices that lead from X down to its descendant n
RECURSIVE pathFrom(_, _)
pathFrom(X, n) ==
    IF n = X THEN <<>>
    ELSE pathFrom(X, parent[n]) \o <<position(parent, children, n)>>

\* breadth-first order of two paths: the shorter first, equally long ones
\* from left to right
Before(p, q) ==
    \/ Len(p) < Len(q)
    \/ /\ Len(p) = Len(q)
       /\ \E i \in 1..Len(p) : p[i] < q[i] /\ \A j \in 1..(i - 1) : p[j] = q[j]

Matching(X, val) ==
    {n \in DOMAIN parent : IsAncestor(parent, X, n) /\ data[n] = val}

(***************************************************************************)
(* C14: X.find(matcher) returns the first proper descendant of X whose     *)
(* label matches, in breadth-first order (each depth before the next, left *)
(* to right within a depth); it never returns X itself and it returns null *)
(* exactly when no proper descendant matches.                              *)
(***************************************************************************)
C14_FindBreadthFirst ==
    last.op = "find" =>
        LET M == Matching(last.x, text)
        IN  IF M = {} THEN last.c = Null
            ELSE /\ last.c \in M
                 /\ \A m \in M \ {last.c} :
                       Before(pathFrom(last.x, last.c), pathFrom(last.x, m))

\* a child was returned although a matching grandchild stands left of it,
\* and the receiver itself matches as well
C14_Witness ==
    /\ last.op = "find"
    /\ last.c # Null
    /\ data[last.x] = text
    /\ Len(pathFrom(last.x, last.c)) = 1
    /\ \E m \in Matching(last.x, text) :
          /\ Len(pathFrom(last.x, m)) = 2
          /\ pathFrom(last.x, m)[1] < pathFrom(last.x, last.c)[1]

(***************************************************************************)
(* Helpers of the layout properties, defined on the tree itself.           *)
(***************************************************************************)
\* the children of n that are drawn
visibleChildren(n) == IF n \in collapsed THEN <<>> ELSE children[n]

\* n is the root or a descendant of it with no collapsed proper ancestor
RECURSIVE Visible(_)
Visible(n) ==
    \/ n = root
    \/ /\ IsNode(parent[n])
       /\ parent[n] \notin collapsed
       /\ Visible(parent[n])

\* the visible descendants of n at the relative depth d (n itself for d = 0)
RECURSIVE level(_, _)
level(n, d) ==
    IF d = 0 THEN {n}
    ELSE UNION {{visibleChildren(m)[i] : i \in 1..Len(visibleChildren(m))} :
                   m \in level(n, d - 1)}

\* the visible leaves of the subtree of n from left to right, a collapsed
\* node being a leaf
RECURSIVE visibleLeaves(_)
visibleLeaves(n) ==
    LET kids == visibleChildren(n)
        RECURSIVE join(_)
        join(i) == IF i > Len(kids) THEN <<>>
                   ELSE visibleLeaves(kids[i]) \o join(i + 1)
    IN  IF kids = <<>> THEN <<n>> ELSE join(1)

\* the positions that pass 1 gives when it is run on the root from the
\* present state
firstPass ==
    numbersOf(setLeafPositionsOf(children, isCollapsed, Layout.pos,
                                 root, 0).pos)

\* C16: after _setLeafPositions(0) on the root, in the subtree of every
\* visible node n, whose first visible leaf received the number s (0 for the
\* root): the visible leaves, a collapsed node being one leaf, carry
\* s, s+1, s+2, ... from left to right, _setLeafPositions(s) on n is the
\* call that gave these positions and it returns s plus the number of these
\* leaves, and no descendant of a collapsed node has a position.
C16_LeafNumbering ==
    last.op = "setLeafPositions" =>
        /\ leafPositionOf(visibleLeaves(root)[1]) = <<last.p * One>>
        /\ \A n \in DOMAIN parent :
              IF Visible(n)
              THEN LET leaves == visibleLeaves(n)
                       s == leafPosition[leaves[1]] \div One
                       r == setLeafPositionsOf(children, isCollapsed,
                                               Layout.pos, n, s)
                   IN  /\ \A i \in 1..Len(leaves) :
                             leafPositionOf(leaves[i]) = <<(s + i - 1) * One>>
                       /\ numbersOf(r.pos) = leafPosition
                       /\ r.start = s + Len(leaves)
              ELSE n \notin DOMAIN leafPosition

\* pass 1 has numbered a tree with a collapsed node that hides a descendant
\* and with a visible inner node whose subtree starts at a number above 0
C16_Witness ==
    /\ last.op = "setLeafPositions"
    /\ \E n \in collapsed : Visible(n) /\ n # root
    /\ \E n \in DOMAIN parent :
          /\ Visible(n)
          /\ visibleChildren(n) # <<>>
          /\ leafPosition[visibleLeaves(n)[1]] >= One

\* the positions of the visible descendants of n at the relative depth d
positionsAt(n, d) == {leafPosition[m] : m \in level(n, d)}

Largest(S) == CHOOSE v \in S : \A w \in S : v >= w

Smallest(S) == CHOOSE v \in S : \A w \in S : v <= w

\* the pairs <<a, b>> of visible siblings with a left of b
SiblingPairs ==
    {ab \in (DOMAIN parent) \X (DOMAIN parent) :
        /\ ab[1] # root /\ ab[2] # root
        /\ Visible(ab[1]) /\ Visible(ab[2])
        /\ parent[ab[1]] = parent[ab[2]]
        /\ position(parent, children, ab[1])
              < position(parent, children, ab[2])}

\* C15: after _setLeafPositions and _realign on the root, for every pair of
\* visible siblings a (left) and b (right) and every relative depth at which
\* both have visible descendants, the largest position of a's descendants
\* at that depth is at least 1 below the smallest position of b's.
C15_NoOverlap ==
    last.op = "realign" =>
        \A ab \in SiblingPairs : \A d \in 0..MaxLayoutNodes :
            (level(ab[1], d) # {} /\ level(ab[2], d) # {})
                => Largest(positionsAt(ab[1], d)) + One
                       <= Smallest(positionsAt(ab[2], d))

\* the layout is complete for a tree in which a node was moved by pass 2 and
\* two siblings both have visible children
C15_Witness ==
    /\ last.op = "realign"
    /\ \E ab \in SiblingPairs :
          level(ab[1], 1) # {} /\ level(ab[2], 1) # {}
    /\ firstPass # leafPosition

\* the layout fields after _setLeafPositions() and _realign() on the root,
\* run from the present state
passesAgain ==
    realignOf(children, parent, isCollapsed,
              [Layout EXCEPT
                  !.pos = setLeafPositionsOf(children, isCollapsed,
                                             Layout.pos, root, 0).pos],
              root)

\* C17: when the two passes have run on the root, running them once more on
\* the unchanged tree gives every visible node the leafPosition it has.
C17_LayoutIdempotent ==
    last.op = "realign" =>
        \A n \in DOMAIN parent :
            Visible(n) => passesAgain.pos[n] = leafPositionOf(n)

\* the two passes have run on a root with three or more children, pass 2
\* has moved a node, and a visible node is collapsed
C17_Witness ==
    /\ last.op = "realign"
    /\ Len(children[root]) >= 3
    /\ \E n \in collapsed : Visible(n)
    /\ firstPass # leafPosition /\ DOMAIN firstPass = DOMAIN leafPosition

\* C18: after a complete full render no node of the tree, visible or hidden
\* under a collapsed ancestor, carries a _leftMargin, a _rightMargin or a
\* _leafPosition.
C18_ScratchCleared ==
    last.op = "render" =>
        \A n \in DOMAIN parent :
            /\ n \notin DOMAIN leafPosition
            /\ n \notin DOMAIN leftMargin
            /\ n \notin DOMAIN rightMargin

\* a full render is complete on a tree with a node hidden under a collapsed
\* node and with visible nodes on three levels
C18_Witness ==
    /\ last.op = "render"
    /\ \E n \in DOMAIN parent : ~Visible(n)
    /\ level(root, 2) # {}

\* n is visible and has visible children
Inner(n) == Visible(n) /\ visibleChildren(n) # <<>>

\* C19: after _realign completes on the root, every visible node that is
\* neither a leaf nor collapsed has the leafPosition of its middle child
\* when the number of its children is odd, and the average of the
\* leafPositions of its two central children when it is even.
C19_Centred ==
    last.op = "realign" =>
        \A n \in DOMAIN parent :
            Inner(n) =>
                LET kids == children[n]
                    len == Len(kids)
                IN  IF len % 2 = 1
                    THEN leafPosition[n] = leafPosition[kids[(len + 1) \div 2]]
                    ELSE 2 * leafPosition[n]
                           = leafPosition[kids[len \div 2]]
                             + leafPosition[kids[len \div 2 + 1]]

\* the layout is complete and pass 2 has changed the position of a node with
\* an even number of children and of a node with three children
C19_Witness ==
    /\ last.op = "realign"
    /\ \E n \in DOMAIN parent :
          /\ Inner(n) /\ Len(children[n]) % 2 = 0
          /\ firstPass[n] # leafPosition[n]
    /\ \E n \in DOMAIN parent :
          /\ Inner(n) /\ Len(children[n]) = 3
          /\ firstPass[n] # leafPosition[n]

\* C20: when _calculateMargins has run on a node, leftMargin[0] and
\* rightMargin[0] are the node's own leafPosition, and for every relative
\* depth d >= 1 leftMargin[d] is the smallest and rightMargin[d] the largest
\* leafPosition among the node's visible descendants at exactly depth d.
\* It is stated for the children of the root when line 788 is reached:
\* there the margins of such a child and the positions in its subtree have
\* since been moved by the same shift only.
C20_MarginProfile ==
    (last.op = "realignBody" /\ root \notin collapsed) =>
        \A i \in 1..Len(children[root]) :
            LET c == children[root][i]
            IN  /\ leftMargin[c][1] = leafPosition[c]
                /\ rightMargin[c][1] = leafPosition[c]
                /\ \A d \in 1..MaxLayoutNodes :
                      level(c, d) # {} =>
                          /\ d + 1 <= Len(leftMargin[c])
                          /\ d + 1 <= Len(rightMargin[c])
                          /\ leftMargin[c][d + 1] = Smallest(positionsAt(c, d))
                          /\ rightMargin[c][d + 1] = Largest(positionsAt(c, d))

\* C21: the shift that _realign applies to a node left of the pivot of its
\* parent (pos < pivot) is never negative, and the shift it applies to a
\* node right of the pivot (pos > pivot) is never positive.
C21_ShiftTowardsPivot ==
    last.op = "realign" =>
        \A n \in DOMAIN realignShift :
            LET pos == position(parent, children, n)
                pivot == pivotOf(Len(children[parent[n]]))
            IN  /\ pos < pivot => realignShift[n] >= 0
                /\ pos > pivot => realignShift[n] <= 0

(***************************************************************************)
(* C22: for a node c that is not among X's children and                    *)
(* 0 <= p <= number of X's children, an X.insert(c, p) that returns puts c *)
(* at index p exactly and keeps X's previous children in their order       *)
(* around it.                                                              *)
(***************************************************************************)
C22_InsertNonChildAtIndex ==
    [][ (/\ last'.op = "insert"
         /\ last'.out = "ok"
         /\ ~Contains(children[last'.x], last'.c)
         /\ last'.p \in 0..Len(children[last'.x]))
        => LET X == last'.x
               c == last'.c
               p == last'.p
           IN  /\ indexOf(children'[X], c) = p
               /\ Without(children'[X], c) = children[X]
      ]_vars

\* following the children of n never leads back to a node already passed
NoCycleBelow(ch, n) ==
    LET RECURSIVE walk(_, _)
        walk(m, seen) ==
            /\ m \notin seen
            /\ \A i \in 1..Len(ch[m]) : walk(ch[m][i], seen \cup {m})
    IN  walk(n, {})

(***************************************************************************)
(* C23: when node is a proper ancestor of the receiver X,                  *)
(* X.insertContent(node, position) completes without error, X takes node's *)
(* former place (the same parent and index, or SVGTree.root when node was  *)
(* the root), node becomes a child of X, and the structure under X has no  *)
(* cycle.                                                                  *)
(***************************************************************************)
C23_AncestorDrop ==
    [][ (/\ last'.op = "insertContent"
         /\ IsAncestor(parent, last'.c, last'.x))
        => LET X == last'.x
               node == last'.c
           IN  /\ last'.out = "ok"
               /\ IF IsNode(parent[node])
                  THEN /\ parent'[X] = parent[node]
                       /\ position(parent', children', X)
                              = position(parent, children, node)
                  ELSE root' = X
               /\ parent'[node] = X
               /\ \E i \in 1..Len(children'[X]) : children'[X][i] = node
               /\ NoCycleBelow(children', X)
      ]_vars

\* the number of places at which n stands in the children sequences
occurrences(n) ==
    Cardinality({Xi \in (DOMAIN children) \X (1..Len(parent)) :
                    /\ Xi[2] <= Len(children[Xi[1]])
                    /\ children[Xi[1]][Xi[2]] = n})

(***************************************************************************)
(* C24: after any sequence of append, prepend, insert, removeChild and     *)
(* detach calls, every node occurs at most once in the children sequences  *)
(* of all nodes taken together, and a node that occurs in X's children has *)
(* the parent reference X.                                                 *)
(***************************************************************************)
C24_ChildOnceUnderParent ==
    \A n \in DOMAIN parent :
        /\ occurrences(n) <= 1
        /\ \A X \in DOMAIN children :
              Contains(children[X], n) => parent[n] = X

\* a node was attached while another node holds a parent reference to a
\* node that no longer has it as a child, and some node has two children
C24_Witness ==
    /\ last.op \in Attach
    /\ last.out = "ok"
    /\ \E n \in DOMAIN parent :
          IsNode(parent[n]) /\ ~Contains(children[parent[n]], n)
    /\ \E X \in DOMAIN children : Len(children[X]) = 2

====
